---------------------------- MODULE Spec2Model ----------------------------
(***************************************************************************)
(* A model of meica.py: the filename parser fparse, the dataset            *)
(* specification parser format_inset, and the plan compiler gen_script.    *)
(*                                                                         *)
(* Strings that the program takes apart (dataset specifications, file      *)
(* names, prefixes) are sequences of one-character strings, so that        *)
(* split, join, endswith and substring tests are computed as Python        *)
(* computes them.  Literal suffixes that are only ever appended and        *)
(* compared whole ("_vrmat.aff12.1D") are single tokens of the sequence.   *)
(***************************************************************************)
EXTENDS Integers, Sequences, FiniteSets, TLC

VARIABLES pc, pin, pout, opts, env, loc, script_list, err, mask_dict, caller

vars == <<pc, pin, pout, opts, env, loc, script_list, err, mask_dict, caller>>

---------------------------------------------------------------------------
(* Bounds of the model *)

\* longest file name given to fparse
MaxNameLen == 5
\* most echo markers / datasets in a specification given to format_inset
MaxEchoes == 3
\* most options by which a configuration departs from one of the Profiles
MaxDev == 1
\* most calls of gen_script made with one configuration
MaxCalls == 2

---------------------------------------------------------------------------
(* Python string primitives *)

Last(s) == s[Len(s)]

Max(a, b) == IF a >= b THEN a ELSE b

\* c in s, for a one-character c
Contains(s, c) == \E i \in 1..Len(s) : s[i] = c

\* sub in s
HasSub(s, sub) ==
  \E i \in 0..(Len(s) - Len(sub)) : SubSeq(s, i + 1, i + Len(sub)) = sub

\* s.endswith(suf)
EndsWith(s, suf) ==
  Len(s) >= Len(suf) /\ SubSeq(s, Len(s) - Len(suf) + 1, Len(s)) = suf

\* s.split(c) and re.split('[...]', s): the pieces between separators,
\* empty pieces kept, always at least one piece
RECURSIVE SplitAny(_, _)
SplitAny(s, seps) ==
  IF \E i \in 1..Len(s) : s[i] \in seps
  THEN LET i == CHOOSE k \in 1..Len(s) :
                  s[k] \in seps /\ \A j \in 1..(k - 1) : s[j] \notin seps
       IN  <<SubSeq(s, 1, i - 1)>> \o SplitAny(SubSeq(s, i + 1, Len(s)), seps)
  ELSE <<s>>

\* sep.join(parts)
RECURSIVE Join(_, _)
Join(parts, sep) ==
  IF Len(parts) = 0 THEN <<>>
  ELSE IF Len(parts) = 1 THEN parts[1]
  ELSE parts[1] \o sep \o Join(Tail(parts), sep)

\* s.strip(), the blank being the only whitespace of the alphabet
RECURSIVE Strip(_)
Strip(s) ==
  IF Len(s) = 0 THEN s
  ELSE IF s[1] = " " THEN Strip(Tail(s))
  ELSE IF s[Len(s)] = " " THEN Strip(SubSeq(s, 1, Len(s) - 1))
  ELSE s

Digit(d) == CASE d = 0 -> "0" [] d = 1 -> "1" [] d = 2 -> "2" [] d = 3 -> "3"
              [] d = 4 -> "4" [] d = 5 -> "5" [] d = 6 -> "6" [] d = 7 -> "7"
              [] d = 8 -> "8" [] d = 9 -> "9"

\* str(n) for a natural number
RECURSIVE NatToStr(_)
NatToStr(n) == IF n < 10 THEN <<Digit(n)>>
               ELSE NatToStr(n \div 10) \o <<Digit(n % 10)>>

---------------------------------------------------------------------------
(* fparse, meica.py 13-46 *)

\* the AFNI branch, lines 32-34
fparseAfni(fname) ==
  LET parsed(plus) ==
        [prefix |-> plus[1],
         ftype  |-> <<"+">> \o SplitAny(Last(plus), {"."})[1]]
  IN  parsed(SplitAny(fname, {"+"}))

\* lines 37-38 with the prefix cut one part too late: parts[:-1]
fparseGz_late(fname) ==
  LET parsed(parts, n) ==
        [prefix |-> Join(SubSeq(parts, 1, n - 1), <<".">>),
         ftype  |-> <<".">> \o Join(SubSeq(parts, Max(1, n - 1), n), <<".">>)]
      split(parts) == parsed(parts, Len(parts))
  IN  split(SplitAny(fname, {"."}))

\* the gzipped branch, lines 37-38
fparseGz(fname) ==
  LET parsed(parts, n) ==
        [prefix |-> Join(SubSeq(parts, 1, n - 2), <<".">>),
         ftype  |-> <<".">> \o Join(SubSeq(parts, Max(1, n - 1), n), <<".">>)]
      split(parts) == parsed(parts, Len(parts))
  IN  split(SplitAny(fname, {"."}))

\* the plain-extension branch, lines 40-41
fparseExt(fname) ==
  LET parsed(parts, n) ==
        [prefix |-> Join(SubSeq(parts, 1, n - 1), <<".">>),
         ftype  |-> <<".">> \o parts[n]]
      split(parts) == parsed(parts, Len(parts))
  IN  split(SplitAny(fname, {"."}))

fparse(fname) ==
  IF Contains(fname, ".")
  THEN IF Contains(fname, "+") THEN fparseAfni(fname)
       ELSE IF EndsWith(fname, <<".", "g", "z">>) THEN fparseGz(fname)
       ELSE fparseExt(fname)
  ELSE [prefix |-> fname, ftype |-> <<>>]

---------------------------------------------------------------------------
(* format_inset, meica.py 49-96 *)

Returned(ds, sn) == [ok |-> TRUE, dsname |-> ds, setname |-> sn, exc |-> "none"]
Raised(e) == [ok |-> FALSE, dsname |-> <<>>, setname |-> <<>>, exc |-> e]

\* the shorthand branch, lines 70-78
format_inset_short(inset, e) ==
  LET named(prefix, echo_nums, trailing, ftype) ==
        IF e + 1 > Len(echo_nums) THEN Raised("IndexError")
        ELSE Returned(prefix \o echo_nums[e + 1] \o trailing \o ftype,
                      prefix \o Join(echo_nums, <<>>) \o trailing)
      pieces(parts, trailing, ftype) ==
        named(parts[1], SubSeq(parts, 2, Len(parts) - 1), trailing, ftype)
      split(fname, ftype) ==
        pieces(SplitAny(fname, {"[", "]", ","}),
               Last(SplitAny(fname, {"]", "+"})), ftype)
      typed(fname, ftype) ==
        split(fname, IF Contains(ftype, "+")
                     THEN ftype \o <<".", "H", "E", "A", "D">>
                     ELSE ftype)
      parsed(fp) == typed(fp.prefix, fp.ftype)
  IN  parsed(fparse(inset))

\* line 87 with every echo number joined: ''.join(echo_nums)
longSetname_all(prefix, echo_nums) == prefix \o Join(echo_nums, <<>>)

\* the run name of the longhand branch, line 87
longSetname(prefix, echo_nums) ==
  prefix \o Join(SubSeq(echo_nums, 2, Len(echo_nums)), <<>>)

\* the longhand branch, lines 82-88: the dataset is indexed (line 86)
\* before the assertion (line 88) is evaluated
format_inset_long(inset, tes, e) ==
  LET named(datasets_in, echo_nums) ==
        IF e + 1 > Len(datasets_in) THEN Raised("IndexError")
        ELSE IF Len(echo_nums) # Len(datasets_in)
             THEN Raised("AssertionError")
             ELSE Returned(Strip(datasets_in[e + 1]),
                           longSetname(fparse(datasets_in[1]).prefix,
                                       echo_nums))
  IN  named(SplitAny(inset, {","}), [vv \in 1..Len(tes) |-> NatToStr(vv)])

format_inset(inset, tes, e) ==
  IF Contains(inset, "[") THEN format_inset_short(inset, e)
  ELSE format_inset_long(inset, tes, e)

---------------------------------------------------------------------------
(* The literal texts that gen_script appends to names it derives from the  *)
(* dataset specification and the anatomical, character by character, so    *)
(* that two names are equal exactly when their texts are equal             *)

Lit ==
  ("MNI_caez_N27+tlrc" :> <<"M", "N", "I", "_", "c", "a", "e", "z", "_", "N", "2", "7", "+", "t", "l", "r", "c">>)
  @@ ("lp-t2s" :> <<"l", "p", "-", "t", "2", "s">>)
  @@ ("aea" :> <<"a", "e", "a">>)
  @@ ("meica." :> <<"m", "e", "i", "c", "a", ".">>)
  @@ ("_meica_" :> <<"_", "m", "e", "i", "c", "a", "_">>)
  @@ (".sh" :> <<".", "s", "h">>)
  @@ ("_do.nii.gz" :> <<"_", "d", "o", ".", "n", "i", "i", ".", "g", "z">>)
  @@ ("_ns.nii.gz" :> <<"_", "n", "s", ".", "n", "i", "i", ".", "g", "z">>)
  @@ ("_u.nii.gz" :> <<"_", "u", ".", "n", "i", "i", ".", "g", "z">>)
  @@ (".nii" :> <<".", "n", "i", "i">>)
  @@ ("_vrA.nii.gz" :> <<"_", "v", "r", "A", ".", "n", "i", "i", ".", "g", "z">>)
  @@ ("_vrmat.aff12.1D" :> <<"_", "v", "r", "m", "a", "t", ".", "a", "f", "f", "1", "2", ".", "1", "D">>)
  @@ ("_obla2e_mat.1D" :> <<"_", "o", "b", "l", "a", "2", "e", "_", "m", "a", "t", ".", "1", "D">>)
  @@ ("_ob.nii.gz" :> <<"_", "o", "b", ".", "n", "i", "i", ".", "g", "z">>)
  @@ ("_vrA.1D" :> <<"_", "v", "r", "A", ".", "1", "D">>)
  @@ ("_pt.nii.gz" :> <<"_", "p", "t", ".", "n", "i", "i", ".", "g", "z">>)
  @@ ("_at.nii.gz" :> <<"_", "a", "t", ".", "n", "i", "i", ".", "g", "z">>)
  @@ ("_atnl.nii.gz" :> <<"_", "a", "t", "n", "l", ".", "n", "i", "i", ".", "g", "z">>)
  @@ ("_al_mat.aff12.1D" :> <<"_", "a", "l", "_", "m", "a", "t", ".", "a", "f", "f", "1", "2", ".", "1", "D">>)
  @@ ("_xns2at.aff12.1D" :> <<"_", "x", "n", "s", "2", "a", "t", ".", "a", "f", "f", "1", "2", ".", "1", "D">>)
  @@ ("_xat2ns.aff12.1D" :> <<"_", "x", "a", "t", "2", "n", "s", ".", "a", "f", "f", "1", "2", ".", "1", "D">>)
  @@ ("_wmat.aff12.1D" :> <<"_", "w", "m", "a", "t", ".", "a", "f", "f", "1", "2", ".", "1", "D">>)
  @@ ("_vrwmat.aff12.1D" :> <<"_", "v", "r", "w", "m", "a", "t", ".", "a", "f", "f", "1", "2", ".", "1", "D">>)
  @@ (".nii.gz" :> <<".", "n", "i", "i", ".", "g", "z">>)
  @@ ("_at.nii" :> <<"_", "a", "t", ".", "n", "i", "i">>)
  @@ ("_at+tlrc" :> <<"_", "a", "t", "+", "t", "l", "r", "c">>)
  @@ ("_atu.nii.gz" :> <<"_", "a", "t", "u", ".", "n", "i", "i", ".", "g", "z">>)
  @@ ("_atnl_WARP.nii.gz" :> <<"_", "a", "t", "n", "l", "_", "W", "A", "R", "P", ".", "n", "i", "i", ".", "g", "z">>)
  @@ ("_tsoc" :> <<"_", "t", "s", "o", "c">>)
  @@ ("_medn" :> <<"_", "m", "e", "d", "n">>)
  @@ ("_T1c_medn" :> <<"_", "T", "1", "c", "_", "m", "e", "d", "n">>)
  @@ ("_hikts" :> <<"_", "h", "i", "k", "t", "s">>)
  @@ ("_mefc" :> <<"_", "m", "e", "f", "c">>)
  @@ ("_mefl" :> <<"_", "m", "e", "f", "l">>)
  @@ ("_mefcz" :> <<"_", "m", "e", "f", "c", "z">>)
  @@ ("nlw" :> <<"n", "l", "w">>)
  @@ ("afw" :> <<"a", "f", "w">>)
  @@ ("nat" :> <<"n", "a", "t">>)
  @@ ("epi" :> <<"e", "p", "i">>)
  @@ ("_export_mask.nii" :> <<"_", "e", "x", "p", "o", "r", "t", "_", "m", "a", "s", "k", ".", "n", "i", "i">>)
  @@ ("_" :> <<"_">>)
  @@ ("_nat" :> <<"_", "n", "a", "t">>)
  @@ ("_ctab.txt" :> <<"_", "c", "t", "a", "b", ".", "t", "x", "t">>)
  @@ ("_mmix.1D" :> <<"_", "m", "m", "i", "x", ".", "1", "D">>)

---------------------------------------------------------------------------
(* Configurations of gen_script: the options of get_options (meica.py       *)
(* 169-388) that decide which stages are emitted and what they read and    *)
(* write, and the environment gen_script looks at.  Options that are only  *)
(* copied into a stage's argument text (cpus, tpattern, daw, align_args,   *)
(* ted_args, initcost, finalcost, sourceTEs, strict) are left out.         *)

\* the texts given on the command line in the configurations below
Arg ==
  ("r[1,2].nii" :> <<"r", "[", "1", ",", "2", "]", ".", "n", "i", "i">>)
  @@ ("r[1,2,3].nii" :> <<"r", "[", "1", ",", "2", ",", "3", "]", ".", "n", "i", "i">>)
  @@ ("a.nii" :> <<"a", ".", "n", "i", "i">>)
  @@ ("a.nii,b.nii" :> <<"a", ".", "n", "i", "i", ",", "b", ".", "n", "i", "i">>)
  @@ ("a" :> <<"a">>)
  @@ ("m.nii" :> <<"m", ".", "n", "i", "i">>)
  @@ ("m+orig" :> <<"m", "+", "o", "r", "i", "g">>)
  @@ ("t/T+tlrc" :> <<"t", "/", "T", "+", "t", "l", "r", "c">>)
  @@ ("b.nii" :> <<"b", ".", "n", "i", "i">>)

\* the defaults of get_options, lines 182-384, with a dataset, its echo
\* times, an anatomical and an equilibration offset given
BaseCase ==
  [input_ds |-> Arg["r[1,2].nii"], tes |-> <<"1", ",", "2">>, anat |-> Arg["m.nii"],
   basetime |-> <<"2", "v">>, TR |-> <<>>, mni |-> FALSE, space |-> <<>>,
   qwarp |-> FALSE, native |-> FALSE, fres |-> FALSE,
   no_skullstrip |-> FALSE, no_despike |-> FALSE, no_axialize |-> FALSE,
   mask_mode |-> "func", mask_interned |-> TRUE, coreg_mode |-> Lit["lp-t2s"],
   t2salign |-> "unset", FWHM |-> "0mm", align_base |-> <<>>,
   select_only |-> FALSE, tedica_only |-> FALSE, export_only |-> FALSE,
   highpass |-> "default", detrend |-> "default",
   prefix |-> <<>>, label |-> <<>>,
   test_proc |-> FALSE, preproc_only |-> FALSE, keep_int |-> FALSE,
   resume |-> FALSE, overwrite |-> FALSE,
   \* the environment
   ds_exist |-> TRUE, anat_exists |-> TRUE, meica_dirs |-> "none",
   afni_env |-> TRUE, oblique_epi |-> FALSE, oblique_anat |-> FALSE,
   hdr_tr |-> 2]

EnvFields == {"ds_exist", "anat_exists", "meica_dirs", "afni_env",
              "oblique_epi", "oblique_anat", "hdr_tr"}
OptFields == DOMAIN BaseCase \ EnvFields

\* one option or one fact of the environment set to another value
Overrides ==
  {<<"input_ds", Arg["a.nii,b.nii"]>>, <<"input_ds", Arg["r[1,2,3].nii"]>>, <<"input_ds", Arg["a"]>>,
   <<"tes", <<"5">>>>, <<"tes", <<"1", ",", "2", ",", "3">>>>,
   <<"anat", <<>>>>, <<"anat", Arg["m+orig"]>>,
   <<"basetime", <<"0">>>>, <<"basetime", <<"5", "s">>>>,
   <<"TR", <<"3">>>>,
   <<"mni", TRUE>>, <<"space", Arg["t/T+tlrc"]>>, <<"qwarp", TRUE>>,
   <<"native", TRUE>>, <<"fres", TRUE>>, <<"no_skullstrip", TRUE>>,
   <<"no_despike", TRUE>>, <<"no_axialize", TRUE>>,
   <<"mask_mode", "anat">>, <<"mask_mode", "template">>,
   <<"mask_mode", "">>, <<"mask_mode", "bad">>, <<"mask_interned", FALSE>>,
   <<"coreg_mode", Lit["aea"]>>, <<"coreg_mode", <<"x">>>>,
   <<"coreg_mode", <<"l", "p">>>>,
   <<"FWHM", "3mm">>,
   <<"align_base", <<"3">>>>, <<"align_base", Arg["b.nii"]>>,
   <<"select_only", TRUE>>, <<"tedica_only", TRUE>>, <<"export_only", TRUE>>,
   <<"highpass", "argv">>, <<"highpass", "float">>, <<"detrend", "argv">>,
   <<"prefix", <<"P">>>>, <<"label", <<"L">>>>,
   <<"test_proc", TRUE>>, <<"preproc_only", TRUE>>, <<"keep_int", TRUE>>,
   <<"resume", TRUE>>, <<"overwrite", TRUE>>,
   <<"ds_exist", FALSE>>, <<"anat_exists", FALSE>>,
   <<"meica_dirs", "own">>, <<"meica_dirs", "other">>,
   <<"afni_env", FALSE>>, <<"oblique_epi", TRUE>>, <<"oblique_anat", TRUE>>}

Apply(c, ov) == [c EXCEPT ![ov[1]] = ov[2]]

RECURSIVE ApplyAll(_, _)
ApplyAll(c, ovs) ==
  IF Len(ovs) = 0 THEN c ELSE ApplyAll(Apply(c, ovs[1]), Tail(ovs))

\* the configurations the deviations are taken from
Profiles ==
  {BaseCase,
   \* one longhand dataset with a one-character echo time
   ApplyAll(BaseCase, <<<<"input_ds", Arg["a.nii"]>>, <<"tes", <<"5">>>>>>),
   \* full normalization: template and nonlinear warp
   ApplyAll(BaseCase, <<<<"mni", TRUE>>, <<"qwarp", TRUE>>>>),
   \* no anatomical
   Apply(BaseCase, <<"anat", <<>>>>),
   \* a resumed run whose directory is there
   ApplyAll(BaseCase, <<<<"resume", TRUE>>, <<"meica_dirs", "own">>>>)}

RECURSIVE CasesWithin(_)
CasesWithin(k) ==
  IF k = 0 THEN Profiles
  ELSE LET prev == CasesWithin(k - 1)
       IN  prev \cup {Apply(c, ov) : c \in prev, ov \in Overrides}

Cases == CasesWithin(MaxDev)

---------------------------------------------------------------------------
(* gen_script, meica.py 391-1406: state and helpers *)

\* a local variable that has not been assigned
UNBOUND == <<"?">>

\* the locals of gen_script whose value or definedness changes as it runs;
\* emitted counts the calls of script_list.append made so far, geom is the
\* set of geometry readings taken, dropped the names written by stages that
\* a reset of script_list removed from the plan
Loc0 ==
  [setname |-> UNBOUND, dsname |-> UNBOUND, dataset |-> UNBOUND,
   pfix |-> UNBOUND, basebrik |-> -1, tr |-> 0, oblique_mode |-> FALSE,
   output_prefix |-> UNBOUND, emitted |-> 0, geom |-> {}, dropped |-> {}]

\* one entry of script_list: the command, the artifact names it reads and
\* writes, the stage group and (when it belongs to one) the echo and the
\* exported quantity, and what else the claims look at in its arguments
Stage(cmd, reads, writes, grp, echo, q, arg) ==
  [cmd |-> cmd, reads |-> reads, writes |-> writes, grp |-> grp,
   echo |-> echo, q |-> q, arg |-> arg]

Blank(grp)   == Stage("", {}, {}, grp, 0, 0, "")
Comment(grp) == Stage("#", {}, {}, grp, 0, 0, "")
\* a shell line that touches no artifact
Shell(cmd, grp) == Stage(cmd, {}, {}, grp, 0, 0, "")

\* an exception raised where the next entry would have been built
Raise(exc) == Stage("raise", {}, {}, "", 0, 0, exc)

FirstRaise(items) ==
  IF \E i \in 1..Len(items) : items[i].cmd = "raise"
  THEN CHOOSE i \in 1..Len(items) :
         items[i].cmd = "raise" /\ \A j \in 1..(i - 1) : items[j].cmd # "raise"
  ELSE 0

\* the entries appended before the first exception
Appended(items) ==
  IF FirstRaise(items) = 0 THEN items
  ELSE SubSeq(items, 1, FirstRaise(items) - 1)

ExcOf(items) ==
  IF FirstRaise(items) = 0 THEN "none" ELSE items[FirstRaise(items)].arg

\* the sequences of a sequence of sequences, one after the other
RECURSIVE Flat(_)
Flat(ss) == IF Len(ss) = 0 THEN <<>> ELSE ss[1] \o Flat(Tail(ss))

\* a sequence that is there only when the condition holds
When(cond, items) == IF cond THEN items ELSE <<>>

\* truth value of a string
Truthy(s) == s # <<>>

\* int(s) for a string of digits
RECURSIVE StrToNat(_)
StrToNat(s) ==
  IF Len(s) = 0 THEN 0
  ELSE 10 * StrToNat(SubSeq(s, 1, Len(s) - 1))
       + (CHOOSE d \in 0..9 : Digit(d) = s[Len(s)])

\* s.isdigit()
IsDigit(s) == Len(s) > 0 /\ \A i \in 1..Len(s) : \E d \in 0..9 : Digit(d) = s[i]

\* s.strip(c)
RECURSIVE StripCh(_, _)
StripCh(s, c) ==
  IF Len(s) = 0 THEN s
  ELSE IF s[1] = c THEN StripCh(Tail(s), c)
  ELSE IF s[Len(s)] = c THEN StripCh(SubSeq(s, 1, Len(s) - 1), c)
  ELSE s

\* int(round(t / tr)), Python 3 rounding halves to even
RoundDiv(t, tr) ==
  LET q == t \div tr
      r == t % tr
  IN  IF 2 * r < tr THEN q
      ELSE IF 2 * r > tr THEN q + 1
      ELSE IF q % 2 = 0 THEN q ELSE q + 1

\* options.tes.split(',')
TesList(o) == SplitAny(o.tes, {","})
NEchoes(o) == Len(TesList(o))

---------------------------------------------------------------------------
(* lines 405-411: the required input data *)

InputCheck(o, e) ==
  LET bad(r) == ~r.ok \/ ~(e.ds_exist /\ r.dsname # <<>>)
      failed(r) == [exc |-> IF ~r.ok THEN r.exc ELSE "OSError:dataset",
                    dataset |-> UNBOUND]
      checked(r, n) ==
        IF \E k \in 0..(n - 1) : bad(r[k])
        THEN failed(r[CHOOSE k \in 0..(n - 1) :
                        bad(r[k]) /\ \A j \in 0..(k - 1) : ~bad(r[j])])
        ELSE [exc |-> "none", dataset |-> r[n - 1].dsname]
      each(tes) ==
        checked([k \in 0..(Len(tes) - 1) |-> format_inset(o.input_ds, tes, k)],
                Len(tes))
  IN  each(TesList(o))

---------------------------------------------------------------------------
(* lines 413-488: names, timing, normalization, alignment, geometry *)

\* lines 422-425
RunName(o) ==
  LET sn == format_inset(o.input_ds, TesList(o), 0).setname
  IN  IF o.label # <<>> THEN sn \o o.label ELSE sn

\* lines 430-433
ReadTR(o, e) == IF o.TR # <<>> THEN StrToNat(o.TR) ELSE e.hdr_tr

\* lines 435-439; -1 when neither branch assigns basebrik
BaseBrik(o, e) ==
  IF Contains(o.basetime, "v") THEN StrToNat(StripCh(o.basetime, "v"))
  ELSE IF Contains(o.basetime, "s")
       THEN RoundDiv(StrToNat(StripCh(o.basetime, "s")), ReadTR(o, e))
       ELSE -1

\* lines 442-444
SpaceOf(o) == IF o.mni THEN Lit["MNI_caez_N27+tlrc"] ELSE o.space
\* lines 443-444 run before line 442: the target read before --MNI sets it
MaskModeOf_early(o) ==
  IF o.mask_mode = "" /\ Truthy(o.space) THEN "template" ELSE o.mask_mode

\* lines 443-444
MaskModeOf(o) ==
  IF o.mask_mode = "" /\ Truthy(SpaceOf(o)) THEN "template" ELSE o.mask_mode

\* lines 446-448 with the two branches exchanged
valid_qwarp_mode_swapped(o) ==
  ~(Truthy(o.anat) /\ Truthy(SpaceOf(o)) /\ o.qwarp)

\* lines 446-448
valid_qwarp_mode(o) == Truthy(o.anat) /\ Truthy(SpaceOf(o)) /\ o.qwarp

\* lines 451-452
T2sAlignOf(o) ==
  IF o.coreg_mode = Lit["aea"] THEN "False"
  ELSE IF HasSub(o.coreg_mode, <<"l", "p">>) THEN "True"
  ELSE o.t2salign

\* lines 457-480: the geometry readings in order, up to the first that
\* raises
GeometryRead(o, e) ==
  IF o.anat # <<>>
  THEN IF ~e.anat_exists
       THEN [exc |-> "FileNotFoundError", geom |-> {"cm_epi"},
             oblique_mode |-> FALSE]
       ELSE [exc |-> "none",
             geom |-> {"cm_epi", "cm_anat", "zooms_epi", "obl_anat", "obl_epi"},
             oblique_mode |-> e.oblique_epi \/ e.oblique_anat]
  ELSE [exc |-> "UnboundLocalError", geom |-> {}, oblique_mode |-> FALSE]

---------------------------------------------------------------------------
(* lines 490-527: underspecified and conflicting options *)

ValidatorErrors ==
  {"OSError:inputs", "OSError:meica_exists", "OSError:afni_env",
   "OSError:qwarp", "OSError:mask_mode", "OSError:mask_anat", "OSError:anat"}

\* lines 495-498
meica_exists(e) == e.meica_dirs # "none"

\* `options.mask_mode is not 'func'`: identity with the interned literal,
\* which a value parsed from the command line does not have
IsNotFunc(o) == ~(o.mask_mode = "func" /\ o.mask_interned)

\* lines 509-512
QwarpRule(o) == o.qwarp /\ (o.anat = <<>> \/ ~Truthy(o.space))

\* lines 520-522
MaskAnatRule(o) == o.anat = <<>> /\ IsNotFunc(o)

Validate(o, e) ==
  IF o.input_ds = <<>> \/ o.tes = <<>> THEN "OSError:inputs"
  ELSE IF ~o.overwrite /\ meica_exists(e) THEN "OSError:meica_exists"
  ELSE IF ~e.afni_env THEN "OSError:afni_env"
  ELSE IF QwarpRule(o) THEN "OSError:qwarp"
  ELSE IF o.mask_mode \notin {"func", "anat", "template"} THEN "OSError:mask_mode"
  ELSE IF MaskAnatRule(o) THEN "OSError:mask_anat"
  ELSE IF ~e.anat_exists /\ o.anat # <<>> THEN "OSError:anat"
  ELSE "none"

---------------------------------------------------------------------------
(* Artifact names *)

\* a file in the directory gen_script was started in
InStart(n) == <<"$start/">> \o n
\* a name that does not depend on the configuration
Fixed(s) == <<s>>
\* 'e' + str(echo + 1), then a suffix
Dsin(k) == <<"e">> \o NatToStr(k)
EName(k, suffix) == Dsin(k) \o <<suffix>>

MeicaDir(run)   == Lit["meica."] \o run
ScriptFile(run) == InStart(Lit["_meica_"] \o run \o Lit[".sh"])

\* lines 563-590
AnatPrefix(o)  == fparse(o.anat).prefix
DeobliqAnat(o, l) ==
  IF l.oblique_mode THEN AnatPrefix(o) \o Lit["_do.nii.gz"] ELSE o.anat
NsMprage(o) ==
  IF ~o.no_skullstrip THEN AnatPrefix(o) \o Lit["_ns.nii.gz"] ELSE o.anat

---------------------------------------------------------------------------
(* lines 529-555: the run environment and the working directory *)

\* lines 536-540
MakesDir(o) ==
  ~(o.resume /\ o.tedica_only /\ o.select_only /\ o.export_only)

Setup(o, l) ==
  LET run == l.setname
  IN  [pre   |-> <<Comment("setup"), Shell("set -e", "setup"),
                   Shell("export OMP_NUM_THREADS", "setup"),
                   Shell("export MKL_NUM_THREADS", "setup"),
                   Shell("export AFNI_3dDespike_NEW", "setup")>>
                 \o When(MakesDir(o),
                         <<Stage("mkdir", {}, {MeicaDir(run)}, "setup", 0, 0, "")>>),
       reset |-> o.resume,
       post  |-> When(o.resume,
                      <<Stage("mv", {MeicaDir(run)}, {}, "setup", 0, 0,
                              "_meica.orig.sh")>>)
                 \o When(~o.tedica_only /\ ~o.select_only,
                         <<Stage("cp", {ScriptFile(run), MeicaDir(run)}, {},
                                 "setup", 0, 0, "")>>)
                 \o <<Stage("cd", {MeicaDir(run)}, {}, "setup", 0, 0, "")>>]

---------------------------------------------------------------------------
(* lines 557-590: the anatomical, in the starting directory *)

AnatPrep(o, l) ==
  When(o.anat # <<>>,
       <<Blank("anatprep"), Comment("anatprep")>>
       \o When(l.oblique_mode,
               <<Stage("3dWarp", {InStart(o.anat)},
                       {InStart(AnatPrefix(o) \o Lit["_do.nii.gz"])},
                       "anatprep", 0, 0, "deoblique")>>)
       \o When(~o.no_skullstrip,
               <<Stage("3dUnifize;3dSkullStrip;3dAutobox",
                       {InStart(DeobliqAnat(o, l))},
                       {InStart(AnatPrefix(o) \o Lit["_u.nii.gz"]),
                        InStart(AnatPrefix(o) \o Lit["_ns.nii.gz"])},
                       "anatprep", 0, 0, "")>>))

---------------------------------------------------------------------------
(* lines 592-606: the functional datasets copied in *)

\* line 599: format_inset is given options.tes, the string, where the
\* other calls give options.tes.split(',')
IngestInset(o, k) == format_inset(o.input_ds, o.tes, k)

IngestEcho(o, k) ==
  LET r  == IngestInset(o, k)
      nm == r.setname \o Lit[".nii"]
  IN  IF ~r.ok THEN <<Raise(r.exc)>>
      ELSE <<Stage("3dcalc", {InStart(r.dsname)}, {nm}, "ingest", k + 1, 0,
                   "copy")>>
           \o When(HasSub(fparse(o.input_ds).ftype, Lit[".nii"]),
                   <<Stage("nifti_tool", {nm}, {nm}, "ingest", k + 1, 0, "")>>)

Ingest(o) ==
  <<Blank("ingest"), Comment("ingest")>>
  \o Flat([k \in 1..NEchoes(o) |-> IngestEcho(o, k - 1)])

---------------------------------------------------------------------------
(* lines 608-679: motion and obliquity parameters, the base volume *)

\* line 613
VrAinput0(o) == IngestInset(o, 0).dsname \o Lit[".nii"]
VrA(l) == l.setname \o Lit["_vrA.nii.gz"]
\* the input of volume registration after lines 631-640
VrAinput(o, l) ==
  IF ~o.no_despike \/ ~o.no_axialize THEN VrA(l) ELSE VrAinput0(o)
VrMat(l) == l.setname \o Lit["_vrmat.aff12.1D"]
OblMat(l) == l.setname \o Lit["_obla2e_mat.1D"]
AnatOb(o) == AnatPrefix(o) \o Lit["_ob.nii.gz"]
eBbase == Fixed("eBbase.nii.gz")

\* lines 643-653
ExternalBase(o) == o.align_base # <<>> /\ ~IsDigit(o.align_base)

MotionBaseline(o, l) ==
  <<Blank("motion"), Comment("motion")>>
  \o When(~IngestInset(o, 0).ok, <<Raise(IngestInset(o, 0).exc)>>)
  \o When(l.oblique_mode,
          IF o.anat # <<>>
          THEN <<Stage("3dWarp", {VrAinput0(o), InStart(NsMprage(o))},
                       {AnatOb(o), OblMat(l)}, "motion", 0, 0, "card2oblique")>>
          ELSE <<Stage("3dWarp", {VrAinput0(o)}, {VrAinput0(o)}, "motion", 0, 0,
                       "deoblique")>>)
  \o When(~o.no_despike,
          <<Stage("3dDespike", {VrAinput0(o)}, {VrA(l)}, "motion", 0, 0, "")>>)
  \o When(~o.no_axialize,
          <<Stage("3daxialize",
                  {IF ~o.no_despike THEN VrA(l) ELSE VrAinput0(o)},
                  {VrA(l)}, "motion", 0, 0, "")>>)
  \o (IF o.align_base # <<>>
      THEN <<Stage("3dcalc",
                   {IF IsDigit(o.align_base) THEN VrAinput(o, l)
                    ELSE o.align_base},
                   {eBbase}, "motion", 0, 0, "eBbase")>>
      ELSE IF l.basebrik = -1 THEN <<Raise("UnboundLocalError")>>
      ELSE <<Stage("3dcalc", {VrAinput(o, l)}, {eBbase}, "motion", 0, 0,
                   "eBbase")>>)
  \o When(ExternalBase(o) /\ l.oblique_mode,
          <<Stage("3dWarp", {eBbase}, {eBbase}, "motion", 0, 0, "deoblique")>>)
  \o When(ExternalBase(o) /\ ~o.no_axialize,
          <<Stage("3daxialize", {eBbase}, {eBbase}, "motion", 0, 0, "")>>)
  \o <<Stage("3dvolreg", {eBbase, VrAinput(o, l)},
             {VrA(l), l.setname \o Lit["_vrA.1D"], VrMat(l)}, "motion", 0, 0, "")>>
  \o (IF l.basebrik = -1 THEN <<Raise("UnboundLocalError")>>
      ELSE <<Stage("1dcat", {l.setname \o Lit["_vrA.1D"]}, {Fixed("motion.1D")},
                   "motion", 0, 0, "")>>)

---------------------------------------------------------------------------
(* lines 680-731: preliminary preprocessing of each echo *)

\* lines 687-689
EchoDataset(o, k) == format_inset(o.input_ds, TesList(o), k).dsname

\* the time-shifted dataset named after the first echo (e0_dsin of line
\* 691) for every echo
Ts_e0(K) == EName(1, "_ts+orig")

Ts(K) == EName(K, "_ts+orig")

PrelimEcho(o, l, K) ==
  LET dataset == EchoDataset(o, K - 1)
      fp      == fparse(dataset)
      pt      == fp.prefix \o Lit["_pt.nii.gz"]
      self(cmd, arg) == Stage(cmd, {Ts(K)}, {Ts(K)}, "prelim", K, 0, arg)
  IN  <<Blank("prelim"), Comment("prelim")>>
      \o When(~o.no_despike,
              <<Stage("3dDespike", {fp.prefix \o fp.ftype}, {pt}, "prelim", K, 0,
                      "")>>)
      \o <<Stage("3dTshift", {IF ~o.no_despike THEN pt ELSE dataset}, {Ts(K)},
                 "prelim", K, 0, ""),
           self("3drefit", "view")>>
      \o When(l.oblique_mode /\ o.anat = <<>>, <<self("3dWarp", "deoblique")>>)
      \o When(~o.no_axialize, <<self("3daxialize", "")>>)
      \o <<self("3drefit", IF l.oblique_mode THEN "deoblique-TR" ELSE "TR")>>

Prelim(o, l) ==
  <<Blank("prelim"), Comment("prelim")>>
  \o Flat([K \in 1..NEchoes(o) |-> PrelimEcho(o, l, K)])

\* pfix as the loop of lines 685-731 leaves it
LastPfix(o) == fparse(EchoDataset(o, NEchoes(o) - 1)).prefix

---------------------------------------------------------------------------
(* lines 733-778: T2*, S0 and optimally combined volumes *)

\* line 747: the matrix given to -1Dmatrix_apply is named after pfix
DecayMatrix(l) == l.pfix \o Lit["_vrmat.aff12.1D"]

DecayEcho(l, K) ==
  IF l.basebrik = -1 THEN <<Raise("UnboundLocalError")>>
  ELSE <<Stage("3dAllineate", {DecayMatrix(l), eBbase, Ts(K)},
               {EName(K, "_vrA.nii.gz")}, "decay", K, 0, "vrmat")>>

Decay(o, l) ==
  LET ocv_ss   == Fixed("ocv_ss.nii.gz")
      t2svm_ss == Fixed("t2svm_ss.nii.gz")
      s0v_ss   == Fixed("s0v_ss.nii.gz")
      st(cmd, r, w) == Stage(cmd, r, w, "decay", 0, 0, "")
  IN  <<Blank("decay"), Comment("decay")>>
      \o Flat([K \in 1..NEchoes(o) |-> DecayEcho(l, K)])
      \o <<st("3dZcat", {EName(K, "_vrA.nii.gz") : K \in 1..NEchoes(o)},
              {Fixed("basestack.nii.gz")}),
           st("t2smap.py", {Fixed("basestack.nii.gz")},
              {Fixed("ocv.nii"), Fixed("t2svm.nii"), Fixed("s0v.nii")}),
           st("3dUnifize", {Fixed("ocv.nii")}, {Fixed("ocv_uni+orig")}),
           st("3dSkullStrip", {Fixed("ocv_uni+orig")}, {ocv_ss}),
           st("3dcalc", {Fixed("t2svm.nii"), ocv_ss}, {t2svm_ss}),
           st("3dcalc", {Fixed("s0v.nii"), ocv_ss}, {s0v_ss})>>
      \o When(~o.no_axialize,
              <<st("3daxialize", {t2svm_ss}, {t2svm_ss}),
                st("3daxialize", {ocv_ss}, {ocv_ss}),
                st("3daxialize", {s0v_ss}, {s0v_ss})>>)

---------------------------------------------------------------------------
(* lines 780-783: resume from here on *)

\* lines 780-783 without the reset of line 782
ResumeBoundary_kept(o) ==
  [pre   |-> <<>>,
   reset |-> FALSE,
   post  |-> When(o.resume, <<Shell("export AFNI_DECONFLICT", "resume")>>)]

\* lines 780-783
ResumeBoundary(o) ==
  [pre   |-> <<>>,
   reset |-> o.resume,
   post  |-> When(o.resume, <<Shell("export AFNI_DECONFLICT", "resume")>>)]

---------------------------------------------------------------------------
(* lines 785-955: anatomical warps, coregistration, combined transform *)

\* os.path.basename
Basename(n) == Last(SplitAny(n, {"/"}))

Template(o)    == <<"$templateloc/">> \o o.space
PfixNsMprage(o) == fparse(NsMprage(o)).prefix
AtNsMprage(o)  == PfixNsMprage(o) \o Lit["_at.nii.gz"]
AtnlNsMprage(o) == PfixNsMprage(o) \o Lit["_atnl.nii.gz"]
AlMat(o)       == AnatPrefix(o) \o Lit["_al_mat.aff12.1D"]
Xns2at(o)      == InStart(AnatPrefix(o) \o Lit["_xns2at.aff12.1D"])
Xat2ns(o)      == AnatPrefix(o) \o Lit["_xat2ns.aff12.1D"]
WMat(l)        == l.setname \o Lit["_wmat.aff12.1D"]
VrwMat(l)      == l.setname \o Lit["_vrwmat.aff12.1D"]
abtemplate     == Fixed("abtemplate.nii.gz")

\* lines 794-850: affine warp of the anatomical to the template
AffineWarp(o) ==
  LET pf == PfixNsMprage(o)
      st(cmd, r, w, arg) == Stage(cmd, r, w, "align", 0, 0, arg)
  IN  <<Shell("afnibin_loc", "align"), Shell("templateloc", "align")>>
      \o When(~HasSub(fparse(NsMprage(o)).ftype, <<"n", "i", "i">>),
              <<st("3dcalc", {NsMprage(o)}, {pf \o Lit[".nii.gz"]}, "")>>)
      \o <<Blank("align"), Comment("align"),
           st("@auto_tlrc", {Template(o), pf \o Lit[".nii.gz"]},
              {pf \o Lit["_at.nii"]}, "if"),
           st("cp", {pf \o Lit["_at.nii"]}, {InStart(pf \o Lit["_at.nii"])}, ""),
           st("gzip", {InStart(pf \o Lit["_at.nii"])}, {InStart(AtNsMprage(o))}, ""),
           st("ln", {InStart(AtNsMprage(o))}, {AtNsMprage(o)}, "else"),
           Shell("fi", "align"),
           st("3dcopy", {InStart(AtNsMprage(o))}, {pf \o Lit["_at+tlrc"]}, ""),
           st("3drefit", {pf \o Lit["_at+tlrc"]}, {pf \o Lit["_at+tlrc"]}, "view"),
           st("3dAutobox", {Template(o)}, {abtemplate}, "")>>

\* lines 852-888: nonlinear warp of the anatomical to the template
NonlinearWarp(o) ==
  LET pf == PfixNsMprage(o)
      st(cmd, r, w, arg) == Stage(cmd, r, w, "align", 0, 0, arg)
  IN  <<Blank("align"), Comment("align"), Shell("if", "align"),
        Blank("align"), Comment("align"),
        st("3dUnifize", {InStart(AtNsMprage(o))}, {pf \o Lit["_atu.nii.gz"]}, ""),
        st("3dQwarp", {Template(o), pf \o Lit["_atu.nii.gz"]},
           {InStart(AtnlNsMprage(o)), InStart(pf \o Lit["_atnl_WARP.nii.gz"])}, ""),
        Shell("fi", "align"),
        st("ln", {InStart(AtnlNsMprage(o))}, {AtnlNsMprage(o)}, "if")>>

\* line 893-894
AlnsMprage(o, l) ==
  IF l.oblique_mode THEN AnatOb(o) ELSE InStart(NsMprage(o))

\* lines 895-925: the alignment matrix, by one of the two modes
Coregister(o, l) ==
  LET alns == AlnsMprage(o, l)
      ama  == IF ~o.no_axialize
              THEN Basename(IF l.oblique_mode THEN AnatOb(o) ELSE NsMprage(o))
              ELSE alns
      st(cmd, r, w, arg) == Stage(cmd, r, w, "align", 0, 0, arg)
  IN  IF o.coreg_mode = Lit["lp-t2s"]
      THEN When(~o.no_axialize, <<st("3daxialize", {alns}, {ama}, "")>>)
           \o <<st("alignp_mepi_anat.py", {Fixed("t2svm_ss.nii.gz"), ama},
                   {Fixed("alignp.mepi/mepi_al_mat.aff12.1D")}, ""),
                st("cp", {Fixed("alignp.mepi/mepi_al_mat.aff12.1D")},
                   {AlMat(o)}, "al_mat")>>
      ELSE IF o.coreg_mode = Lit["aea"]
      THEN <<Blank("align"), Comment("align"),
             st("3dcopy", {alns}, {Fixed("ANAT_ns+orig")}, ""),
             st("align_epi_anat.py",
                {Fixed("ANAT_ns+orig"), Fixed("ocv_uni+orig")},
                {Fixed("ANAT_ns_al_mat.aff12.1D")}, ""),
             st("cp", {Fixed("ANAT_ns_al_mat.aff12.1D")}, {AlMat(o)}, "al_mat")>>
      ELSE <<>>

\* lines 926-955: normalization matrices and the combined transform
ComposeTransforms(o, l) ==
  LET obl == IF l.oblique_mode THEN {OblMat(l)} ELSE {}
      st(cmd, r, w, arg) == Stage(cmd, r, w, "align", 0, 0, arg)
  IN  When(Truthy(o.space),
           <<st("cat_matvec", {InStart(AtNsMprage(o))}, {Xns2at(o)}, "xns2at"),
             st("cat_matvec", {InStart(AtNsMprage(o))}, {Xat2ns(o)}, "xat2ns")>>)
      \o <<st("cat_matvec", obl \cup {AlMat(o)}, {WMat(l)}, "wmat")>>
      \o When(Truthy(o.anat),
              <<st("cat_matvec", obl \cup {AlMat(o), VrMat(l)}, {VrwMat(l)},
                   "vrwmat")>>)

\* lines 785-955 with the composition of lines 926-952 ahead of the
\* coregistration of lines 892-925
AnatAlign_composed_first(o, l) ==
  IF o.anat # <<>>
  THEN <<Blank("align"), Comment("align"),
         Stage("cp", {InStart(NsMprage(o))}, {NsMprage(o)}, "align", 0, 0, "")>>
       \o When(Truthy(o.space),
               AffineWarp(o) \o When(o.qwarp, NonlinearWarp(o)))
       \o ComposeTransforms(o, l)
       \o Coregister(o, l)
  ELSE <<Stage("cp", {VrMat(l)}, {VrwMat(l)}, "align", 0, 0, "vrwmat")>>

\* lines 785-955
AnatAlign(o, l) ==
  IF o.anat # <<>>
  THEN <<Blank("align"), Comment("align"),
         Stage("cp", {InStart(NsMprage(o))}, {NsMprage(o)}, "align", 0, 0, "")>>
       \o When(Truthy(o.space),
               AffineWarp(o) \o When(o.qwarp, NonlinearWarp(o)))
       \o Coregister(o, l)
       \o ComposeTransforms(o, l)
  ELSE <<Stage("cp", {VrMat(l)}, {VrwMat(l)}, "align", 0, 0, "vrwmat")>>

---------------------------------------------------------------------------
(* lines 957-1188: extended preprocessing and functional masking *)

eBvrmask == Fixed("eBvrmask.nii.gz")
Vr(K)    == EName(K, "_vr.nii.gz")
Sm(K)    == EName(K, "_sm.nii.gz")
In(K)    == EName(K, "_in.nii.gz")
Mean(K)  == EName(K, "_mean.nii.gz")

\* lines 958-977
Scaling(o, l) ==
  <<Blank("ext"), Comment("ext"),
    Stage("3dBrickStat", {eBbase, Ts(1)}, {Fixed("gms.1D")}, "ext", 0, 0, ""),
    Stage("gms", {Fixed("gms.1D")}, {}, "ext", 0, 0, ""),
    Stage("voxsize", {eBbase}, {}, "ext", 0, 0, ""),
    Stage("voxdims", {eBbase}, {}, "ext", 0, 0, ""),
    Stage("echo", {}, {Fixed("voxdims.1D")}, "ext", 0, 0, ""),
    Stage("echo", {}, {Fixed("voxsize.1D")}, "ext", 0, 0, "")>>

\* lines 1000-1030: the mask and the decay volumes on the anatomical grid
MaskToAnat(o, l) ==
  LET st(r, w) == Stage("3dAllineate", {WMat(l), NsMprage(o), eBvrmask} \cup r,
                        {w}, "mask", 1, 0, "wmat")
  IN  <<st({}, eBvrmask)>>
      \o (IF o.t2salign = "unset" THEN <<Raise("AttributeError")>>
          ELSE When(o.t2salign = "True" \/ o.mask_mode # "func",
                    <<st({Fixed("t2svm_ss.nii.gz")}, Fixed("t2svm_ss_vr.nii.gz")),
                      st({Fixed("ocv_uni+orig")}, Fixed("ocv_uni_vr.nii.gz")),
                      st({Fixed("s0v_ss.nii.gz")}, Fixed("s0v_ss_vr.nii.gz"))>>))

\* lines 1032-1092: masking with help from the anatomical or the template
anatmask_epi == Fixed("anatmask_epi.nii.gz")

FancyMask(o, l) ==
  LET st(cmd, r, w) == Stage(cmd, r, w, "mask", 1, 0, "")
  IN  When(Truthy(o.space) /\ o.mask_mode = "template",
           <<st("3dfractionize", {eBvrmask, abtemplate}, {anatmask_epi}),
             \* line 1044: % applied to a text without a conversion
             Raise("TypeError")>>)
      \o When(o.mask_mode = "anat",
              \* line 1054: % applied to a text without a conversion
              <<Raise("TypeError")>>)
      \o <<st("3dBrickStat", {eBvrmask, Fixed("t2svm_ss_vr.nii.gz")},
              {Fixed("t2s_med.1D")}),
           st("3dBrickStat", {eBvrmask, Fixed("s0v_ss_vr.nii.gz")},
              {Fixed("s0v_med.1D")}),
           st("t2sm", {Fixed("t2s_med.1D")}, {}),
           st("s0vm", {Fixed("s0v_med.1D")}, {}),
           st("3dcalc", {Fixed("ocv_uni_vr.nii.gz"), anatmask_epi,
                         Fixed("t2svm_ss_vr.nii.gz"), Fixed("s0v_ss_vr.nii.gz")},
              {Fixed("ocv_uni_vr.nii.gz")}),
           st("3dSkullStrip", {Fixed("ocv_uni_vr.nii.gz")}, {eBvrmask}),
           st("3dresample", {NsMprage(o), eBvrmask}, {eBvrmask})>>

\* lines 987-1109: done once, with the first echo
Masking(o, l) ==
  LET self(cmd) == Stage(cmd, {eBvrmask}, {eBvrmask}, "mask", 1, 0, "")
  IN  <<Blank("mask"), Comment("mask"),
        Stage("3dZeropad", {Fixed("ocv_ss.nii.gz")}, {eBvrmask}, "mask", 1, 0,
              "")>>
      \o When(Truthy(o.anat), MaskToAnat(o, l))
      \o When(Truthy(o.anat) /\ o.mask_mode # "func", FancyMask(o, l))
      \o <<Blank("mask"), Comment("mask"),
           self("3dAutobox"), self("3dresample"), self("3dcalc")>>

\* lines 1115-1188
ExtEcho(o, l, K) ==
  LET st(cmd, r, w, arg) == Stage(cmd, r, w, "ext", K, 0, arg)
  IN  <<Blank("ext"), Comment("ext"),
        st("3dAllineate", {VrwMat(l), eBvrmask, Ts(K)}, {Vr(K)}, "vrwmat")>>
      \o When(K = 1,
              <<st("3dTstat", {Vr(K)}, {EName(K, "_vr_min.nii.gz")}, "min"),
                st("3dcalc", {eBvrmask, EName(K, "_vr_min.nii.gz")}, {eBvrmask},
                   "")>>)
      \o <<st(IF o.FWHM = "0mm" THEN "3dcalc" ELSE "3dBlurInMask",
              {eBvrmask, Vr(K)}, {Sm(K)}, "smooth"),
           st("3dcalc", {Sm(K)}, {Sm(K)}, "scale"),
           st("3dTstat", {Sm(K)}, {Mean(K)}, "mean")>>
      \* line 1162: % applied to the last of three concatenated texts
      \o When(o.detrend # "default", <<Raise("TypeError")>>)
      \* line 1168: {:f} applied to the text read from the command line
      \o (IF o.highpass = "argv" THEN <<Raise("ValueError")>>
          ELSE IF o.highpass = "float"
          THEN <<st("3dBandpass", {Sm(K)}, {In(K)}, "")>>
          ELSE <<st("mv", {Sm(K)}, {In(K)}, "")>>)
      \o <<st("3dcalc", {In(K), Mean(K)}, {In(K)}, "addmean"),
           st("3dTstat", {In(K)}, {EName(K, "_std.nii.gz")}, "stdev")>>
      \o When(o.test_proc, <<Shell("exit", "ext")>>)
      \o When(~(o.test_proc \/ o.keep_int), <<Shell("rm", "ext")>>)

\* the loop of lines 979-1188 left after the first echo in test mode
ExtPreproc_first(o, l) ==
  Scaling(o, l)
  \o Flat([K \in 1..(IF o.test_proc THEN 1 ELSE NEchoes(o)) |->
             When(K = 1, Masking(o, l)) \o ExtEcho(o, l, K)])

\* lines 957-1188
ExtPreproc(o, l) ==
  Scaling(o, l)
  \o Flat([K \in 1..NEchoes(o) |->
             When(K = 1, Masking(o, l)) \o ExtEcho(o, l, K)])

---------------------------------------------------------------------------
(* lines 1190-1205: spatial concatenation *)

ica_input == Fixed("zcat_ffd.nii.gz")
ica_mask  == Fixed("zcat_mask.nii.gz")

Concat(o) ==
  [pre   |-> <<Stage("3dZcat", {In(K) : K \in 1..NEchoes(o)}, {ica_input},
                     "concat", 0, 0, ""),
               Stage("3dcalc", {ica_input}, {ica_mask}, "concat", 0, 0, "")>>
             \o When(o.resume,
                     <<Stage("rm", {}, {}, "concat", 0, 0, "pcastate")>>),
   reset |-> o.tedica_only,
   post  |-> <<>>]

---------------------------------------------------------------------------
(* lines 1207-1245: TE-dependence analysis *)

export_fnames ==
  <<"TED/ts_OC.nii", "TED/dn_ts_OC.nii", "TED/dn_ts_OC_T1c.nii",
    "TED/hik_ts_OC_T1c.nii", "TED/betas_hik_OC.nii", "TED/betas_OC.nii",
    "TED/feats_OC2.nii">>

NQuantities == Len(export_fnames)

\* what the analysis leaves in TED, as far as the rest of the plan uses it
TedOutputs ==
  {Fixed(export_fnames[q]) : q \in 1..NQuantities}
  \cup {Fixed("TED/comp_table.txt"), Fixed("TED/meica_mix.1D")}

\* line 1230
OutputPrefix(o, l) == IF o.prefix = <<>> THEN l.setname ELSE o.prefix

\* lines 1207-1245 without the reset of line 1233
Decomp_kept(o) ==
  [pre   |-> When(~o.preproc_only,
                  <<Blank("decomp"), Comment("decomp"),
                    Stage("tedana.py", {ica_input}, TedOutputs, "decomp", 0, 0,
                          "")>>),
   reset |-> FALSE,
   post  |-> When(o.select_only,
                  <<Stage("tedana.py", {ica_input, Fixed("meica_mix.1D")},
                          TedOutputs, "decomp", 0, 0, "mix")>>)]

\* lines 1207-1245
Decomp(o) ==
  [pre   |-> When(~o.preproc_only,
                  <<Blank("decomp"), Comment("decomp"),
                    Stage("tedana.py", {ica_input}, TedOutputs, "decomp", 0, 0,
                          "")>>),
   reset |-> o.select_only,
   post  |-> When(o.select_only,
                  <<Stage("tedana.py", {ica_input, Fixed("meica_mix.1D")},
                          TedOutputs, "decomp", 0, 0, "mix")>>)]

---------------------------------------------------------------------------
(* lines 1247-1404: export of the results *)

export_vars ==
  <<Lit["_tsoc"], Lit["_medn"], Lit["_T1c_medn"], Lit["_hikts"], Lit["_mefc"], Lit["_mefl"],
    Lit["_mefcz"]>>

CodeText(c) ==
  CASE c = "nlw" -> Lit["nlw"]
    [] c = "afw" -> Lit["afw"]
    [] c = "nat" -> Lit["nat"]
    [] c = "epi" -> Lit["epi"]

export_mask == Fixed("export_mask.nii.gz")
MaskOf(c)   == CodeText(c) \o Lit["_export_mask.nii"]
\* '{}_{}'.format(exp[1], warp_code)
Exported(l, q, c) == l.output_prefix \o export_vars[q] \o Lit["_"] \o CodeText(c)

\* lines 1249-1258
ExportPrep ==
  <<Stage("voxdims", {eBbase}, {}, "export", 0, 0, ""),
    Stage("echo", {}, {Fixed("voxdims.1D")}, "export", 0, 0, ""),
    Stage("3dcalc", {Fixed("TED/ts_OC.nii")}, {export_mask}, "export", 0, 0,
          "export_mask"),
    Blank("export"), Comment("export")>>

\* lines 1297-1359 with the affine branch tested first
WarpCode_affine(o) ==
  IF Truthy(o.space) THEN "afw"
  ELSE IF valid_qwarp_mode(o) THEN "nlw" ELSE "none"

\* the warp of lines 1297-1359, none when neither branch is taken
WarpCode(o) ==
  IF valid_qwarp_mode(o) THEN "nlw"
  ELSE IF Truthy(o.space) THEN "afw" ELSE "none"

\* line 1287, 1362
native_export(o) == o.native \/ WarpCode(o) = "none"
\* lines 1364-1369
native_suffix(o) == IF Truthy(o.anat) THEN "nat" ELSE "epi"

\* to_export of one quantity
ToExport(o) ==
  When(WarpCode(o) # "none", <<WarpCode(o)>>)
  \o When(native_export(o), <<native_suffix(o)>>)

\* the entries that bring one quantity, and once its mask, to a space
Resampled(o, l, q, c, md) ==
  LET src  == Fixed(export_fnames[q])
      out  == Exported(l, q, c) \o Lit[".nii"]
      with == CASE c = "nlw" -> {Xns2at(o),
                                 InStart(PfixNsMprage(o) \o Lit["_atnl_WARP.nii.gz"]),
                                 abtemplate}
                [] c = "afw" -> {Xns2at(o), abtemplate}
                [] c = "nat" -> {NsMprage(o)}
                [] c = "epi" -> {}
      cmd  == CASE c = "nlw" -> "3dNwarpApply"
                [] c = "afw" -> "3dAllineate"
                [] OTHER     -> "3dresample"
  IN  <<Stage(cmd, {src} \cup with, {out}, "export", 0, q, c)>>
      \o When(c \notin md,
              <<Stage(cmd, {export_mask} \cup with, {MaskOf(c)}, "export", 0, q,
                      "mask")>>
              \o When(c \in {"nlw", "afw"},
                      <<Stage("nifti_tool", {MaskOf(c)}, {MaskOf(c)}, "export",
                              0, q, "mask")>>))

\* lines 1387-1399
Finish(o, l, q, c) ==
  LET P   == Exported(l, q, c)
      nii == P \o Lit[".nii"]
  IN  <<Stage("3dNotes", {nii}, {nii}, "export", 0, q, c)>>
      \o When(o.anat # <<>> /\ ~HasSub(P, Lit["_nat"]) /\ o.space # <<>>,
              <<Stage("nifti_tool", {nii}, {nii}, "export", 0, q, c)>>)
      \o <<Stage("3dcalc;gzip;mv", {MaskOf(c), nii},
                 {nii, InStart(P \o Lit[".nii.gz"])}, "export", 0, q, c)>>

\* lines 1285-1399 with mask_dict emptied for every quantity
ExportOne_unkept(o, l, q, md) ==
  LET codes == ToExport(o)
  IN  When(Truthy(o.space) /\ o.anat = <<>>, <<Raise("UnboundLocalError")>>)
      \o Flat([i \in 1..Len(codes) |-> Resampled(o, l, q, codes[i], {})])
      \o Flat([i \in 1..Len(codes) |-> Finish(o, l, q, codes[i])])

\* lines 1285-1399 for one quantity, with the masks made so far
ExportOne(o, l, q, md) ==
  LET codes == ToExport(o)
      md1   == IF Len(codes) > 0 THEN md \cup {codes[1]} ELSE md
  IN  \* line 1294: abmprage is assigned only with an anatomical
      When(Truthy(o.space) /\ o.anat = <<>>, <<Raise("UnboundLocalError")>>)
      \o Flat([i \in 1..Len(codes) |->
                 Resampled(o, l, q, codes[i], IF i = 1 THEN md ELSE md1)])
      \o Flat([i \in 1..Len(codes) |-> Finish(o, l, q, codes[i])])

RECURSIVE ExportFrom(_, _, _, _)
ExportFrom(o, l, q, md) ==
  IF q > NQuantities THEN <<>>
  ELSE ExportOne(o, l, q, md)
       \o ExportFrom(o, l, q + 1, md \cup {ToExport(o)[i] : i \in 1..Len(ToExport(o))})

\* the keys of mask_dict when the loop is over
MasksMade(o) ==
  IF o.preproc_only THEN {}
  ELSE {ToExport(o)[i] : i \in 1..Len(ToExport(o))}

Export(o, l) ==
  ExportPrep
  \o When(~o.preproc_only,
          ExportFrom(o, l, 1, {})
          \o <<Stage("cp", {Fixed("TED/comp_table.txt")},
                     {InStart(l.output_prefix \o Lit["_ctab.txt"])}, "export", 0, 0,
                     "ctab"),
               Stage("cp", {Fixed("TED/meica_mix.1D")},
                     {InStart(l.output_prefix \o Lit["_mmix.1D"])}, "export", 0, 0,
                     "mmix")>>)

---------------------------------------------------------------------------
(* The parsers applied to bounded inputs *)

NoLoc == [set |-> FALSE]
NoOut == [fp    |-> [prefix |-> <<>>, ftype |-> <<>>],
          short |-> Raised("unset"),
          long  |-> Raised("unset")]
NoIn  == [op |-> "none", fname |-> <<>>, prefix |-> <<>>, markers |-> <<>>,
          trailing |-> <<>>, ext |-> <<>>, blank |-> FALSE, tes |-> <<>>,
          e |-> 0]

NameAlphabet == {"a", ".", "+", "g", "z"}

MarkerChars == {"1", "2", "3"}
Prefixes    == {<<"r">>, <<"r", ".", "e">>}
Trailings   == {<<>>, <<"_", "x">>}
Exts        == {<<>>, <<".", "n", "i", "i">>,
                <<".", "n", "i", "i", ".", "g", "z">>,
                <<"+", "o", "r", "i", "g", ".", "H", "E", "A", "D">>}

\* prefix[m1,...,mN]trailing.ext
ShortSpec(in) ==
  in.prefix \o <<"[">> \o Join(in.markers, <<",">>) \o <<"]">>
            \o in.trailing \o in.ext

\* the files the shorthand names, comma-separated
LongSpec(in) ==
  Join([i \in 1..Len(in.markers) |->
          in.prefix \o in.markers[i] \o in.trailing \o in.ext],
       IF in.blank THEN <<",", " ">> ELSE <<",">>)

\* a list of n echo times
EchoTimes(n) == [i \in 1..n |-> <<"5">>]

InitParse ==
  /\ \/ \E n \in 0..MaxNameLen : \E f \in [1..n -> NameAlphabet] :
          pin = [NoIn EXCEPT !.op = "fparse", !.fname = f]
     \/ \E n \in 1..MaxEchoes, k \in 1..(MaxEchoes + 1) :
          \E m \in [1..n -> MarkerChars], p \in Prefixes, t \in Trailings,
             x \in Exts, b \in BOOLEAN, e \in 0..(k - 1) :
            pin = [NoIn EXCEPT !.op = "format_inset", !.prefix = p,
                               !.markers = [i \in 1..n |-> <<m[i]>>],
                               !.trailing = t, !.ext = x, !.blank = b,
                               !.tes = EchoTimes(k), !.e = e]
  /\ pc = "p_start"
  /\ pout = NoOut
  /\ opts = NoLoc /\ env = NoLoc /\ loc = NoLoc
  /\ script_list = <<>> /\ err = "none" /\ mask_dict = {}
  /\ caller = NoLoc

ParseFilename ==
  /\ pc = "p_start" /\ pin.op = "fparse"
  /\ pout' = [pout EXCEPT !.fp = fparse(pin.fname)]
  /\ pc' = "p_done"
  /\ UNCHANGED <<pin, opts, env, loc, script_list, err, mask_dict, caller>>

ParseShorthand ==
  /\ pc = "p_start" /\ pin.op = "format_inset"
  /\ pout' = [pout EXCEPT !.short = format_inset(ShortSpec(pin), pin.tes, pin.e)]
  /\ pc' = "p_short"
  /\ UNCHANGED <<pin, opts, env, loc, script_list, err, mask_dict, caller>>

ParseLonghand ==
  /\ pc = "p_short"
  /\ pout' = [pout EXCEPT !.long = format_inset(LongSpec(pin), pin.tes, pin.e)]
  /\ pc' = "p_done"
  /\ UNCHANGED <<pin, opts, env, loc, script_list, err, mask_dict, caller>>

NextParse == ParseFilename \/ ParseShorthand \/ ParseLonghand

SpecParse == InitParse /\ [][NextParse]_vars

---------------------------------------------------------------------------
(* gen_script as a sequence of steps, one for each block of the function  *)

Config(c, fields) == [f \in fields |-> c[f]]

\* what the caller of gen_script holds: the options as it built them and
\* what the calls made so far came back with
Called(o) == [given |-> o, returned |-> <<>>, reused |-> FALSE]

Init ==
  /\ \E c \in Cases : /\ opts = Config(c, OptFields)
                      /\ env = Config(c, EnvFields)
                      /\ caller = Called(Config(c, OptFields))
  /\ pc = "check_inputs"
  /\ loc = Loc0
  /\ script_list = <<>>
  /\ err = "none"
  /\ mask_dict = {}
  /\ pin = NoIn /\ pout = NoOut

\* a block that appends its entries, with no reset of script_list
Plain(items) == [pre |-> items, reset |-> FALSE, post |-> <<>>]

\* the names written by the stages of a list
Written(items) == UNION {items[i].writes : i \in 1..Len(items)}

\* the entries of a block as they reach script_list: pre is appended; on a
\* reset the list is emptied and post is appended; an exception ends the
\* block where it is raised
Raises(b) ==
  IF ExcOf(b.pre) # "none" THEN ExcOf(b.pre) ELSE ExcOf(b.post)

ListAfter(b) ==
  IF ExcOf(b.pre) # "none" THEN script_list \o Appended(b.pre)
  ELSE IF b.reset THEN Appended(b.post)
  ELSE script_list \o b.pre \o Appended(b.post)

EmittedBy(b) ==
  Len(Appended(b.pre))
  + (IF ExcOf(b.pre) = "none" THEN Len(Appended(b.post)) ELSE 0)

DroppedBy(b) ==
  IF ExcOf(b.pre) = "none" /\ b.reset
  THEN Written(script_list) \cup Written(b.pre)
  ELSE {}

\* one block of gen_script: b is what it appends, l the locals it leaves
Block(from, to, b, l) ==
  /\ pc = from
  /\ script_list' = ListAfter(b)
  /\ err' = Raises(b)
  /\ pc' = IF Raises(b) = "none" THEN to ELSE "failed"
  /\ loc' = [l EXCEPT !.emitted = loc.emitted + EmittedBy(b),
                      !.dropped = loc.dropped \cup DroppedBy(b)]
  /\ UNCHANGED <<opts, env, pin, pout, caller>>

\* lines 405-411
CheckInputs ==
  /\ pc = "check_inputs"
  /\ \E r \in {InputCheck(opts, env)} :
       /\ err' = r.exc
       /\ pc' = IF r.exc = "none" THEN "parse_options" ELSE "failed"
       /\ loc' = [loc EXCEPT !.dataset = r.dataset]
  /\ UNCHANGED <<opts, env, script_list, mask_dict, pin, pout, caller>>

\* lines 413-455
ParseOptions ==
  /\ pc = "parse_options"
  /\ loc' = [loc EXCEPT !.setname = RunName(opts),
                        !.output_prefix = opts.prefix,
                        !.tr = ReadTR(opts, env),
                        !.basebrik = BaseBrik(opts, env)]
  /\ opts' = [opts EXCEPT !.space = SpaceOf(opts),
                          !.mask_mode = MaskModeOf(opts),
                          !.t2salign = T2sAlignOf(opts)]
  /\ pc' = "read_geometry"
  /\ UNCHANGED <<env, script_list, err, mask_dict, pin, pout, caller>>

\* lines 457-488
ReadGeometry ==
  /\ pc = "read_geometry"
  /\ LET g == GeometryRead(opts, env)
     IN  /\ err' = g.exc
         /\ pc' = IF g.exc = "none" THEN "validate" ELSE "failed"
         /\ loc' = [loc EXCEPT !.geom = g.geom,
                               !.oblique_mode = g.oblique_mode]
  /\ UNCHANGED <<opts, env, script_list, mask_dict, pin, pout, caller>>

\* lines 490-527
CheckOptions ==
  /\ pc = "validate"
  /\ err' = Validate(opts, env)
  /\ pc' = IF Validate(opts, env) = "none" THEN "setup" ELSE "failed"
  /\ UNCHANGED <<opts, env, loc, script_list, mask_dict, pin, pout, caller>>

\* lines 529-555
DoSetup ==
  /\ Block("setup", "anat_prep", Setup(opts, loc), loc)
  /\ UNCHANGED mask_dict

\* lines 557-590
DoAnatPrep ==
  /\ Block("anat_prep", "ingest", Plain(AnatPrep(opts, loc)), loc)
  /\ UNCHANGED mask_dict

\* lines 592-606; dsname and setname are left as the last call of
\* format_inset that returned gave them
DoIngest ==
  /\ LET last == IngestInset(opts, NEchoes(opts) - 1)
     IN  Block("ingest", "motion", Plain(Ingest(opts)),
               IF ExcOf(Ingest(opts)) = "none"
               THEN [loc EXCEPT !.setname = last.setname,
                                !.dsname = last.dsname]
               ELSE loc)
  /\ UNCHANGED mask_dict

\* lines 608-679
DoMotionBaseline ==
  /\ Block("motion", "prelim", Plain(MotionBaseline(opts, loc)), loc)
  /\ UNCHANGED mask_dict

\* lines 680-731
DoPrelim ==
  /\ Block("prelim", "decay", Plain(Prelim(opts, loc)),
           [loc EXCEPT !.pfix = LastPfix(opts)])
  /\ UNCHANGED mask_dict

\* lines 733-778
DoDecay ==
  /\ Block("decay", "resume", Plain(Decay(opts, loc)), loc)
  /\ UNCHANGED mask_dict

\* lines 780-783
DoResumeBoundary ==
  /\ Block("resume", "align", ResumeBoundary(opts), loc)
  /\ UNCHANGED mask_dict

\* lines 785-955
DoAnatAlign ==
  /\ Block("align", "ext", Plain(AnatAlign(opts, loc)), loc)
  /\ UNCHANGED mask_dict

\* lines 957-1188
DoExtPreproc ==
  /\ Block("ext", "concat", Plain(ExtPreproc(opts, loc)), loc)
  /\ UNCHANGED mask_dict

\* lines 1190-1205
DoConcat ==
  /\ Block("concat", "decomp", Concat(opts), loc)
  /\ UNCHANGED mask_dict

\* lines 1207-1245
DoDecomp ==
  /\ Block("decomp", "export", Decomp(opts),
           [loc EXCEPT !.output_prefix = OutputPrefix(opts, loc)])
  /\ UNCHANGED mask_dict

\* lines 1247-1406
DoExport ==
  /\ Block("export", "done", Plain(Export(opts, loc)), loc)
  /\ mask_dict' = IF ExcOf(Export(opts, loc)) = "none" THEN MasksMade(opts)
                  ELSE mask_dict

\* what one call came back with: the list, or the exception
Outcome == [script_list |-> IF pc = "done" THEN script_list ELSE <<>>,
            err |-> err]

\* gen_script is called again, with the options object of the call before
\* or with options equal to those of the first call
CallAgain ==
  /\ pc \in {"done", "failed"}
  /\ Len(caller.returned) < MaxCalls - 1
  /\ \E reuse \in BOOLEAN :
       /\ opts' = IF reuse THEN opts ELSE caller.given
       /\ caller' = [caller EXCEPT !.returned = Append(@, Outcome),
                                   !.reused = reuse]
  /\ pc' = "check_inputs"
  /\ loc' = Loc0
  /\ script_list' = <<>>
  /\ err' = "none"
  /\ mask_dict' = {}
  /\ UNCHANGED <<env, pin, pout>>

Next ==
  \/ CallAgain
  \/ CheckInputs \/ ParseOptions \/ ReadGeometry \/ CheckOptions
  \/ DoSetup \/ DoAnatPrep \/ DoIngest \/ DoMotionBaseline \/ DoPrelim
  \/ DoDecay \/ DoResumeBoundary \/ DoAnatAlign \/ DoExtPreproc \/ DoConcat
  \/ DoDecomp \/ DoExport

Spec == Init /\ [][Next]_vars

---------------------------------------------------------------------------
(* Claims about gen_script *)

Terminated == pc \in {"done", "failed"}

\* the checks that come before the rules on the nonlinear warp and on the
\* masking mode all pass: the datasets resolve and exist, the anatomical,
\* if given, exists, no meica directory is in the way, AFNI is set up
Admissible ==
  /\ InputCheck(opts, env).exc = "none"
  /\ env.anat_exists
  /\ opts.overwrite \/ ~meica_exists(env)
  /\ env.afni_env

Longhand(o)  == ~Contains(o.input_ds, "[")
NDatasets(o) == Len(SplitAny(o.input_ds, {","}))

\* an input the plan may take from outside: a file of the starting
\* directory, an input dataset, the anatomical, the template, an external
\* base volume, or what the stages removed by a reset had written
Available(n) ==
  \/ n[1] = "$start/"
  \/ \E k \in 0..(NEchoes(opts) - 1) : n = EchoDataset(opts, k)
  \/ n = opts.anat
  \/ n = Template(opts)
  \/ n = opts.align_base
  \/ n \in loc.dropped

ProducedBefore(i, n) == \E j \in 1..(i - 1) : n \in script_list[j].writes

\* the stages of the plan that consume a name nothing gives them
Unmet ==
  {i \in 1..Len(script_list) :
     \E n \in script_list[i].reads : ~Available(n) /\ ~ProducedBefore(i, n)}

\* C1 as stated: in every plan gen_script returns, each name a stage
\* consumes is produced by a strictly earlier stage of the plan or is an
\* externally available input.
CE_C1 == pc = "done" => Unmet = {}

\* C2 as stated: whenever gen_script fails, it fails before the first
\* entry has been appended to the plan.
CE_C2 == pc = "failed" => loc.emitted = 0

\* C4 as stated: with a longhand specification of N existing datasets and
\* exactly N echo times, no call of format_inset made by gen_script raises
\* the specification error.
CE_C4 ==
  (Longhand(opts) /\ NDatasets(opts) = NEchoes(opts) /\ env.ds_exist)
    => err # "AssertionError"

\* C7 as stated: a configuration that requests the nonlinear warp without
\* an anatomical or without a normalization target ends with the
\* conflicting-options error of the validator and with nothing emitted.
CE_C7 ==
  (/\ Terminated /\ Admissible
   /\ opts.qwarp /\ (opts.anat = <<>> \/ ~Truthy(SpaceOf(opts))))
    => (err = "OSError:qwarp" /\ loc.emitted = 0)

\* C8 as stated: a configuration whose masking mode is 'anat' or 'template'
\* and that has no anatomical ends with the error of the validator's
\* masking rule and with nothing emitted.
CE_C8 ==
  (/\ Terminated /\ Admissible /\ ~opts.qwarp
   /\ opts.anat = <<>> /\ MaskModeOf(opts) \in {"anat", "template"})
    => (err = "OSError:mask_anat" /\ loc.emitted = 0)

AnatPrepStages == {i \in 1..Len(script_list) : script_list[i].grp = "anatprep"}
ExportStages ==
  {i \in 1..Len(script_list) : script_list[i].cmd = "3dcalc;gzip;mv"}

\* C9 as stated: with two echoes, no anatomical and the default masking
\* mode, gen_script returns a plan, the plan has no anatomical-preparation
\* stage, and every export stage uses the native-resample warp code.
CE_C9 ==
  (/\ Terminated /\ Admissible
   /\ NEchoes(opts) = 2 /\ ~Longhand(opts) /\ opts.anat = <<>>
   /\ opts.mask_mode = "func" /\ opts.mask_interned
   /\ ~opts.qwarp /\ ~Truthy(SpaceOf(opts)) /\ BaseBrik(opts, env) # -1
   /\ opts.detrend = "default" /\ opts.highpass # "argv")
    => (/\ pc = "done"
        /\ AnatPrepStages = {}
        /\ \A i \in ExportStages : script_list[i].arg \in {"nat", "epi"})

\* none of the flags that cut the plan down to a part of the pipeline
FullMode(o) ==
  ~o.preproc_only /\ ~o.tedica_only /\ ~o.select_only /\ ~o.export_only

QwarpStages == {i \in 1..Len(script_list) : script_list[i].cmd = "3dQwarp"}
ExportedQuantities == {script_list[i].q : i \in ExportStages}
ExportedAs(q, c) ==
  \E i \in ExportStages : script_list[i].q = q /\ script_list[i].arg = c

\* C10: in every plan returned for a configuration with an anatomical, a
\* normalization target and the nonlinear warp requested, in full mode,
\* every exported quantity is exported with the warp code 'nlw' and the
\* plan has exactly one 3dQwarp stage.
T_C10 ==
  (/\ pc = "done" /\ FullMode(opts)
   /\ Truthy(opts.anat) /\ Truthy(opts.space) /\ opts.qwarp)
    => (/\ \A q \in ExportedQuantities : ExportedAs(q, "nlw")
        /\ Cardinality(QwarpStages) = 1)

W_C10 ==
  /\ pc = "done" /\ FullMode(opts)
  /\ Truthy(opts.anat) /\ Truthy(opts.space) /\ opts.qwarp
  /\ ExportedQuantities = 1..NQuantities
  /\ \A q \in 1..NQuantities : ExportedAs(q, "nlw")
  /\ Cardinality(QwarpStages) = 1

Groups(gs) == {i \in 1..Len(script_list) : script_list[i].grp \in gs}

\* C11 as stated, in what it says of the rule on run directories and of
\* the returned plan: a resumed run whose directory exists is not rejected
\* for that directory, and the plan it returns has no setup, ingest or
\* motion-baseline stage and begins with the resume boundary
CE_C11 ==
  (opts.resume /\ env.meica_dirs = "own") =>
    /\ err # "OSError:meica_exists"
    /\ pc = "done" =>
         /\ Groups({"setup", "ingest", "motion"}) = {}
         /\ Len(script_list) > 0 /\ script_list[1].grp = "resume"

\* C12 as stated: the rule on run directories rejects only for a directory
\* of this run's own name
CE_C12 == err = "OSError:meica_exists" => env.meica_dirs = "own"

\* C13: every call of gen_script with one configuration, geometry and
\* environment ends as the first did, with the same list of stages or the
\* same exception, also when it is given the options object that an
\* earlier call has written to
T_C13 ==
  pc \in {"done", "failed"} =>
    \A i \in 1..Len(caller.returned) : caller.returned[i] = Outcome

\* a second call has returned a plan for the options object the first
\* call wrote its normalization target to
W_C13 ==
  /\ pc = "done" /\ Len(caller.returned) = 1 /\ caller.reused
  /\ opts.space # caller.given.space
  /\ Len(script_list) > 0

\* C14 as stated: a configured anatomical that does not exist is rejected
\* by the validator (the datasets being there), and no geometry has been
\* read from any volume by then
CE_C14 ==
  (/\ pc = "failed"
   /\ Truthy(opts.anat) /\ ~env.anat_exists
   /\ InputCheck(opts, env).exc = "none") =>
    /\ err \in ValidatorErrors
    /\ loc.geom = {}

\* the per-echo group a stage belongs to: the preliminary one, or the
\* extended one with the mask its first echo's block prepares
PerEchoGroup(st) ==
  IF st.echo = 0 THEN "none"
  ELSE IF st.grp = "prelim" THEN "preliminary"
  ELSE IF st.grp \in {"mask", "ext"} THEN "extended"
  ELSE "none"

\* stage i consumes what stage j, of the same per-echo group and of
\* another echo, produces or modifies
CrossEcho(i, j) ==
  /\ PerEchoGroup(script_list[i]) # "none"
  /\ PerEchoGroup(script_list[i]) = PerEchoGroup(script_list[j])
  /\ script_list[i].echo # script_list[j].echo
  /\ script_list[i].reads \cap script_list[j].writes # {}

CrossEchoReads ==
  {p \in (1..Len(script_list)) \X (1..Len(script_list)) : CrossEcho(p[1], p[2])}

\* C15 as stated: no per-echo stage of either group consumes what a stage
\* of another echo in the same group produces or modifies
CE_C15 == pc = "done" => CrossEchoReads = {}

\* C15: the only artifact a per-echo stage consumes from another echo's
\* stages of its group is the functional mask eBvrmask.nii.gz, which the
\* first echo's block of the extended group produces, ahead of the later
\* echo's stage that consumes it
T_C15 ==
  pc = "done" =>
    \A p \in CrossEchoReads :
      /\ script_list[p[1]].reads \cap script_list[p[2]].writes = {eBvrmask}
      /\ PerEchoGroup(script_list[p[1]]) = "extended"
      /\ script_list[p[2]].echo = 1
      /\ p[2] < p[1]

\* a returned plan in which a later echo's stage consumes the mask
W_C15 ==
  /\ pc = "done"
  /\ \E p \in CrossEchoReads : script_list[p[1]].echo = 2
  /\ \E i \in 1..Len(script_list) :
       script_list[i].grp = "prelim" /\ script_list[i].echo = 2

\* stage j produces again a name that the earlier stage i produced,
\* without consuming it
ProducedAnew(i, j) ==
  /\ i < j
  /\ \E n \in script_list[i].writes \cap script_list[j].writes :
       n \notin script_list[j].reads

\* C16 as stated: in every returned plan a stage that produces a name an
\* earlier stage produced also consumes that name
CE_C16 ==
  pc = "done" =>
    \A i, j \in 1..Len(script_list) : ~ProducedAnew(i, j)

Exits == {i \in 1..Len(script_list) : script_list[i].cmd = "exit"}

\* the stage that applies the combined transform to echo K
Resampling(K) ==
  {i \in 1..Len(script_list) :
     /\ script_list[i].grp = "ext" /\ script_list[i].echo = K
     /\ script_list[i].arg = "vrwmat"}

\* the last stage of the extended preprocessing of echo K
StdDev(K) ==
  {i \in 1..Len(script_list) :
     /\ script_list[i].grp = "ext" /\ script_list[i].echo = K
     /\ script_list[i].arg = "stdev"}

\* C17 as stated: with the test-mode exit configured the returned plan
\* has an exit stage right after the resampling of the first echo, and
\* that exit stage is the last entry of the plan
CE_C17 ==
  (pc = "done" /\ opts.test_proc /\ Resampling(1) # {}) =>
    \E x \in Exits : x - 1 \in Resampling(1) /\ x = Len(script_list)

\* C17: with the test-mode exit configured, the extended preprocessing of
\* every echo ends with an exit stage, right after the echo's
\* standard-deviation stage; there is no other exit stage, and the first
\* one is followed in the plan by the stages of the later echoes and of
\* the later groups
T_C17 ==
  (pc = "done" /\ opts.test_proc) =>
    /\ \A x \in Exits : \E K \in 1..NEchoes(opts) : x - 1 \in StdDev(K)
    /\ \A x \in Exits : x < Len(script_list)
    /\ Resampling(1) # {} =>
         \A K \in 1..NEchoes(opts) :
           \E i \in StdDev(K) : i + 1 \in Exits

\* a returned test-mode plan with its exit stages
W_C17 ==
  /\ pc = "done" /\ opts.test_proc
  /\ Cardinality(Exits) = NEchoes(opts)
  /\ \E x \in Exits : \E i \in Resampling(2) : x < i

\* the invocations of the decomposition tool in the plan
TedanaStages == {i \in 1..Len(script_list) : script_list[i].cmd = "tedana.py"}

\* C18: the plan returned in selection-only mode begins with the one
\* invocation of the decomposition tool it contains, which names the
\* mixing matrix meica_mix.1D
T_C18 ==
  (pc = "done" /\ opts.select_only) =>
    /\ TedanaStages = {1}
    /\ script_list[1].arg = "mix"
    /\ Fixed("meica_mix.1D") \in script_list[1].reads

\* a selection-only plan with the export stages after the invocation
W_C18 ==
  /\ pc = "done" /\ opts.select_only
  /\ TedanaStages # {}
  /\ \E i \in 2..Len(script_list) : script_list[i].grp = "export"

WarpCodes == {"nlw", "afw", "nat", "epi"}
\* the stages that multiply an exported quantity by the mask of a warp code
Multiplying(c) == {i \in ExportStages : MaskOf(c) \in script_list[i].reads}
\* the stages that make the mask of a warp code from something else
MaskProducers(c) ==
  {i \in 1..Len(script_list) :
     MaskOf(c) \in script_list[i].writes \ script_list[i].reads}

\* C19: in every returned plan, for every warp code whose mask some export
\* stage multiplies by, exactly one stage produces that mask, it is emitted
\* in the export of the first quantity, and it precedes every stage that
\* multiplies by the mask (so there is one such stage per warp code, however
\* many quantities are exported)
T_C19 ==
  pc = "done" =>
    \A c \in WarpCodes :
      Multiplying(c) # {} =>
        \E m \in 1..Len(script_list) :
          /\ MaskProducers(c) = {m}
          /\ script_list[m].q = 1
          /\ \A i \in Multiplying(c) : m < i

\* a plan that exports all seven quantities with two warp codes
W_C19 ==
  /\ pc = "done"
  /\ ExportedQuantities = 1..NQuantities
  /\ \E c, d \in WarpCodes :
       /\ c # d
       /\ Cardinality(Multiplying(c)) = NQuantities
       /\ Cardinality(Multiplying(d)) = NQuantities
       /\ Cardinality(MaskProducers(c)) = 1
       /\ Cardinality(MaskProducers(d)) = 1

\* the warp codes under which a quantity is multiplied by a mask in the plan
CodesOf(q) == {script_list[i].arg : i \in {j \in ExportStages : script_list[j].q = q}}
NativeCodes == {"nat", "epi"}
\* the warp path the priority rule gives to a configuration
Chosen(o) ==
  IF Truthy(o.anat) /\ Truthy(SpaceOf(o)) /\ o.qwarp THEN {"nlw"}
  ELSE IF Truthy(SpaceOf(o)) THEN {"afw"}
  ELSE NativeCodes

\* C20: in every returned plan with export stages, each of the seven
\* quantities is exported with the one warp path the priority rule chooses
\* ('nlw' with the nonlinear warp, an anatomical and a target; else 'afw'
\* with a target; else native), and a quantity exported to a target is
\* exported in native space as well exactly when the native toggle is set
T_C20 ==
  (pc = "done" /\ ExportStages # {}) =>
    \A q \in 1..NQuantities :
      /\ CodesOf(q) = CodesOf(1)
      /\ \E c \in Chosen(opts) : c \in CodesOf(q)
      /\ CodesOf(q) \subseteq Chosen(opts) \cup NativeCodes
      /\ Cardinality(CodesOf(q)) <= 2
      /\ Chosen(opts) # NativeCodes =>
           ((CodesOf(q) \cap NativeCodes # {}) <=> opts.native)
      /\ Chosen(opts) = NativeCodes => Cardinality(CodesOf(q)) = 1

\* a plan whose quantities go to the target by the nonlinear path and, the
\* native toggle being set, to native space too
W_C20 ==
  /\ pc = "done" /\ opts.native /\ opts.qwarp /\ Truthy(opts.space)
  /\ \A q \in 1..NQuantities : CodesOf(q) = {"nlw", "nat"}

\* the stages that read something the decomposition tool leaves in TED
ReadsTed == {i \in 1..Len(script_list) : script_list[i].reads \cap TedOutputs # {}}

\* C21 as stated: a plan returned in preprocessing-only mode has no
\* invocation of the decomposition tool, no export stage, and no stage that
\* reads an output of the decomposition tool.
CE_C21 ==
  (pc = "done" /\ opts.preproc_only) =>
    /\ TedanaStages = {}
    /\ ExportStages = {}
    /\ ReadsTed = {}

\* C22 as stated: a plan returned with the export-only flag set and no
\* other mode flag consists of export stages only, with no preprocessing
\* stage and no invocation of the decomposition tool.
CE_C22 ==
  (/\ pc = "done" /\ opts.export_only
   /\ ~opts.preproc_only /\ ~opts.tedica_only /\ ~opts.select_only
   /\ ~opts.resume)
    => (/\ \A i \in 1..Len(script_list) : script_list[i].grp = "export"
        /\ TedanaStages = {})

\* the base frame index the rule on equilibration offsets gives
FrameOf(o, tr) ==
  IF Contains(o.basetime, "v") THEN StrToNat(StripCh(o.basetime, "v"))
  ELSE IF Contains(o.basetime, "s")
       THEN RoundDiv(StrToNat(StripCh(o.basetime, "s")), tr)
  ELSE StrToNat(o.basetime)
\* the stages that make the base volume
BaseStages ==
  {i \in 1..Len(script_list) :
     script_list[i].cmd = "3dcalc" /\ script_list[i].arg = "eBbase"}

\* C23 as stated: once the timing options are parsed the base frame index
\* is N for an offset 'Nv', round(T / TR) for 'Ts' and 0 for the default
\* '0', and a plan compiled with no explicit alignment base takes the base
\* volume from the registration input.
CE_C23 ==
  /\ pc \notin {"check_inputs", "parse_options"} /\ loc.setname # UNBOUND
       => loc.basebrik = FrameOf(opts, loc.tr)
  /\ (pc = "done" /\ opts.align_base = <<>> /\ Groups({"motion"}) # {})
       => \E i \in BaseStages : script_list[i].reads = {VrAinput(opts, loc)}

\* the stages that make the reprojected prior mask, and those that use it
PriorProducers ==
  {i \in 1..Len(script_list) :
     anatmask_epi \in script_list[i].writes \ script_list[i].reads}
PriorConsumers ==
  {i \in 1..Len(script_list) : anatmask_epi \in script_list[i].reads}

\* C24 as stated: for a validated configuration with an anatomical and a
\* masking mode other than the functional one, gen_script returns a plan
\* in which exactly one stage produces the reprojected prior mask and that
\* stage precedes the refinement stage that consumes the mask.
CE_C24 ==
  (/\ Terminated /\ Admissible /\ FullMode(opts) /\ ~opts.resume
   /\ Truthy(opts.anat) /\ opts.mask_mode \in {"anat", "template"}
   /\ Validate(opts, env) = "none" /\ BaseBrik(opts, env) # -1
   /\ opts.detrend = "default" /\ opts.highpass # "argv")
    => (/\ pc = "done"
        /\ Cardinality(PriorProducers) = 1
        /\ PriorConsumers # {}
        /\ \A m \in PriorProducers : \A i \in PriorConsumers : m < i)

\* the signal-decay resampling stages, one for each echo
DecayStages ==
  {i \in 1..Len(script_list) :
     script_list[i].grp = "decay" /\ script_list[i].arg = "vrmat"}

\* C25 as stated: in a returned plan the matrix that each echo's
\* signal-decay resampling stage applies is the motion matrix that the
\* volume-registration stage saved earlier in the plan.
CE_C25 ==
  pc = "done" =>
    \A i \in DecayStages :
      \E j \in 1..(i - 1) :
        /\ script_list[j].cmd = "3dvolreg"
        /\ VrMat(loc) \in script_list[j].writes
        /\ VrMat(loc) \in script_list[i].reads

\* the copy stages of functional ingestion
CopyStages ==
  {i \in 1..Len(script_list) :
     script_list[i].grp = "ingest" /\ script_list[i].arg = "copy"}
\* the stages of the motion baseline that read a volume
MotionReaders ==
  {i \in 1..Len(script_list) :
     script_list[i].grp = "motion" /\ script_list[i].reads # {}}

\* C26 as stated: a returned plan that ingests N echoes has N copy stages
\* whose outputs are distinct per echo, and the first stage of the motion
\* baseline that reads a volume reads the output of the first echo's copy
\* stage.
CE_C26 ==
  (pc = "done" /\ CopyStages # {} /\ MotionReaders # {}) =>
    /\ Cardinality(CopyStages) = NEchoes(opts)
    /\ \A i, j \in CopyStages :
         i # j => script_list[i].writes \cap script_list[j].writes = {}
    /\ \E c \in CopyStages :
         /\ script_list[c].echo = 1
         /\ \E m \in MotionReaders :
              /\ \A n \in MotionReaders : m <= n
              /\ script_list[c].writes \cap script_list[m].reads # {}

\* the stages that make the combined transform of the run, those that make
\* the alignment matrix, and the per-echo stages that apply the transform
VrwProducers ==
  {i \in 1..Len(script_list) : VrwMat(loc) \in script_list[i].writes}
AlignProducers ==
  {i \in 1..Len(script_list) : AlMat(opts) \in script_list[i].writes}
VrwAppliers ==
  {i \in 1..Len(script_list) :
     script_list[i].grp = "ext" /\ VrwMat(loc) \in script_list[i].reads}

\* the two alignment modes of the configuration
AlignModes == {Lit["lp-t2s"], Lit["aea"]}

AddMean == {i \in 1..Len(script_list) : script_list[i].arg = "addmean"}
\* the stages that remove the mean of echo K's series
Filters(K) ==
  {i \in 1..Len(script_list) :
     /\ script_list[i].echo = K
     /\ script_list[i].cmd \in {"3dDetrend", "3dBandpass"}}

\* C28 as stated: in a returned plan the stage that adds the temporal mean
\* back into an echo's series comes after a detrend or highpass stage of
\* that echo; with neither filter there is no such stage.
CE_C28 ==
  pc = "done" =>
    \A i \in AddMean :
      \E j \in Filters(script_list[i].echo) : j < i

\* C29 as stated: in a returned plan of a run that makes its directory, the
\* run name of the working-directory stages (mkdir, cd), of the motion
\* matrix and the combined transform, and of the export prefix when no
\* output prefix is configured, is one and the same.
CE_C29 ==
  (pc = "done" /\ FullMode(opts) /\ ~opts.resume) =>
    \E run \in {RunName(opts)} :
      /\ \E i \in Groups({"setup"}) :
           script_list[i].cmd = "mkdir" /\ MeicaDir(run) \in script_list[i].writes
      /\ \E i \in Groups({"setup"}) :
           script_list[i].cmd = "cd" /\ MeicaDir(run) \in script_list[i].reads
      /\ \E i \in Groups({"motion"}) :
           run \o Lit["_vrmat.aff12.1D"] \in script_list[i].writes
      /\ \E i \in Groups({"align"}) :
           run \o Lit["_vrwmat.aff12.1D"] \in script_list[i].writes
      /\ opts.prefix = <<>> => loc.output_prefix = run

\* a name in the working directory: not one in the starting directory or
\* among the templates, and not the working directory itself
InWorkDir(n) ==
  /\ n # <<>>
  /\ n[1] \notin {"$start/", "$templateloc/"}
  /\ n # MeicaDir(RunName(opts))
\* the stages that read or write something in the working directory
WorkStages ==
  {i \in 1..Len(script_list) :
     \E n \in script_list[i].reads \cup script_list[i].writes : InWorkDir(n)}

\* the plan has the stage cmd, ahead of every working-directory stage
Leads(cmd) ==
  \E s \in 1..Len(script_list) :
    /\ script_list[s].cmd = cmd
    /\ \A i \in WorkStages : s < i
\* the modes in which gen_script empties the list after the setup
ResetMode(o) == o.resume \/ o.tedica_only \/ o.select_only

\* C30 as stated: every returned plan has the fail-fast directive and the
\* stage that enters the working directory, both ahead of every stage that
\* reads or writes a working-directory artifact.
CE_C30 == pc = "done" => (Leads("set -e") /\ Leads("cd"))

\* C30: a plan returned in full or preprocessing-only mode has the
\* fail-fast directive and the stage that enters the working directory,
\* both ahead of every stage that reads or writes a working-directory
\* artifact; a plan returned in resume, decomposition-only or
\* selection-only mode has neither of the two stages
T_C30 ==
  pc = "done" =>
    IF ResetMode(opts)
    THEN \A i \in 1..Len(script_list) : script_list[i].cmd \notin {"set -e", "cd"}
    ELSE Leads("set -e") /\ Leads("cd")

\* a resumed plan, begun at the resume boundary, with stages that work in
\* the working directory
W_C30 ==
  /\ pc = "done" /\ opts.resume /\ ~opts.tedica_only /\ ~opts.select_only
  /\ script_list[1].grp = "resume"
  /\ WorkStages # {}

---------------------------------------------------------------------------
(* Claims about the parsers *)

ParsedInset == pc = "p_done" /\ pin.op = "format_inset"

\* C3 as stated: a longhand specification whose echo-time list differs in
\* length from its dataset list raises the specification error
\* (AssertionError) for every echo index below len(echoTimes).
CE_C3 ==
  (ParsedInset /\ Len(pin.tes) # Len(pin.markers))
    => (~pout.long.ok /\ pout.long.exc = "AssertionError")

\* C5 as stated: the shorthand and the longhand it expands to give the same
\* run name, whenever both are resolved.
CE_C5 ==
  (ParsedInset /\ pout.short.ok /\ pout.long.ok)
    => pout.short.setname = pout.long.setname

CanonicalMarkers(in) ==
  /\ in.trailing = <<>>
  /\ \A i \in 1..Len(in.markers) : in.markers[i] = NatToStr(i)

\* C5 amended: when the echo markers are 1..N in order and nothing trails
\* the bracket, the shorthand and the longhand it expands to give the same
\* run name whenever both are resolved.
T_C5 ==
  (ParsedInset /\ pout.short.ok /\ pout.long.ok /\ CanonicalMarkers(pin))
    => pout.short.setname = pout.long.setname

W_C5 ==
  /\ ParsedInset /\ pout.short.ok /\ pout.long.ok /\ CanonicalMarkers(pin)
  /\ Len(pin.markers) = 3
  /\ pout.long.setname = pin.prefix \o <<"1", "2", "3">>

ParsedName == pc = "p_done" /\ pin.op = "fparse"

Compressed(f) == EndsWith(f, <<".", "g", "z">>)
Legacy(f)     == Contains(f, "+")
Dots(f)       == Cardinality({i \in 1..Len(f) : f[i] = "."})
Pluses(f)     == Cardinality({i \in 1..Len(f) : f[i] = "+"})
DotAfterPlus(f) ==
  \E i, j \in 1..Len(f) : i < j /\ f[i] = "+" /\ f[j] = "."

\* C6 as stated: for every name ending in .gz or containing '+', prefix and
\* filetype concatenate back to the name.
CE_C6 ==
  (ParsedName /\ (Compressed(pin.fname) \/ Legacy(pin.fname)))
    => pout.fp.prefix \o pout.fp.ftype = pin.fname

\* C6 amended: prefix + filetype gives the name back for every name without
\* '+' that ends in .gz and has at least two dots, and for every name with
\* exactly one '+' and no '.' after it.
T_C6 ==
  (/\ ParsedName
   /\ \/ (Compressed(pin.fname) /\ ~Legacy(pin.fname) /\ Dots(pin.fname) >= 2)
      \/ (Pluses(pin.fname) = 1 /\ ~DotAfterPlus(pin.fname)))
    => pout.fp.prefix \o pout.fp.ftype = pin.fname

W_C6 ==
  /\ ParsedName
  /\ pin.fname = <<"a", ".", ".", "g", "z">>
  /\ pout.fp.ftype = <<".", ".", "g", "z">>

===========================================================================
